---- MODULE Spec2Model ----
(***************************************************************************)
(* Model of mflib: the bootstrap checkpoint store (core.py) and the        *)
(* bootstrap orchestrator MFLib.init (mflib.py).                           *)
(*                                                                         *)
(* The remote executor (fablib node: execute, upload_file, download_file)  *)
(* is an external collaborator.  Each call to it has an outcome drawn from *)
(* Net: "ok" (the call returns) or "fail" (it raises a transport error).   *)
(* A failed upload leaves the remote file as it was, a failed download     *)
(* leaves the local file as it was.                                        *)
(***************************************************************************)
EXTENDS Integers, Sequences, FiniteSets, TLC

VARIABLES
    remote,     \* bootstrap_status.json in the home directory of the meas node
    local,      \* self.bootstrap_status_file, the local cache
    pc,         \* position of the controlling thread inside MFLib.init
    bss,        \* the local variable bss of MFLib.init
    ret,        \* how the last run of MFLib.init ended
    ran,        \* stages whose action was executed in the current run
    skipped,    \* stages skipped by their predicate in the current run
    wrote,      \* stages whose _update_bootstrap call returned in the current run
    failed,     \* stages that reported a hard failure in the current run
    fetched,    \* get_mfuser_private_key was called in the current run
    done,       \* stages executed with an acknowledged checkpoint write
    acked,      \* key -> value of the _update_bootstrap calls that returned True
    last,       \* the last call made on the checkpoint store
    node,       \* what the control node holds under the services directory
    inv         \* the last invocation of the service command dispatcher

vars == <<remote, local, pc, bss, ret, ran, skipped, wrote, failed, fetched,
          done, acked, last, node, inv>>

svcVars == <<node, inv>>

initVars == <<pc, bss, ret, ran, skipped, wrote, failed, fetched, done>>

----------------------------------------------------------------------------
(* Bounds of the checkpoint-store specification *)

NKeys == 2
NVals == 2

KeyOrder == <<"mfuser_keys", "repo_cloned", "status", "meas_network">>
ValOrder == <<"ok", "ready", "set", "not needed">>

StoreKeys == {KeyOrder[i] : i \in 1..NKeys}
StoreVals == {ValOrder[i] : i \in 1..NVals}

Net == {"ok", "fail"}

----------------------------------------------------------------------------
(* Files and python values *)

EmptyDict == <<>>

NoFile == [st |-> "absent", doc |-> EmptyDict]
EmptyFile == [st |-> "empty", doc |-> EmptyDict]
JsonFile(d) == [st |-> "json", doc |-> d]

Dict(d) == [type |-> "dict", dict |-> d]
NoStatus == [type |-> "none"]

DownloadFailMsg == "Bootstrap download has failed."

\* core.py:962 returns the set literal {"msg", download_msg}
FailStatusEmpty(msg) == Dict(EmptyDict)
FailStatus(msg) == [type |-> "set", elems |-> {"msg", msg}]

\* python "x in b" for a dict (keys) or a set (elements)
In(x, b) ==
    IF b.type = "dict" THEN x \in DOMAIN b.dict
    ELSE IF b.type = "set" THEN x \in b.elems
    ELSE FALSE

----------------------------------------------------------------------------
(* Checkpoint store, core.py *)

\* meas_node.download_file inside _download_bootstrap_status.  A remote file
\* that is missing raises FileNotFoundError after the local file was opened
\* for writing, which leaves an empty local file (core.py:965-967).
download_keep_local(l, r, net) ==
    IF net = "fail" THEN [success |-> FALSE, msg |-> DownloadFailMsg, local |-> l]
    ELSE IF r.st = "absent" THEN [success |-> TRUE, msg |-> "File not found", local |-> l]
    ELSE [success |-> TRUE, msg |-> "", local |-> r]
download_bootstrap_status(l, r, net) ==
    IF net = "fail" THEN [success |-> FALSE, msg |-> DownloadFailMsg, local |-> l]
    ELSE IF r.st = "absent" THEN [success |-> TRUE, msg |-> "File not found", local |-> EmptyFile]
    ELSE [success |-> TRUE, msg |-> "", local |-> r]

\* core.py:959
NeedsDownloadForceOnly(force, l) == force
NeedsDownload(force, l) == force \/ l.st = "absent"

\* core.py:964-981
ReadStatusFileForgets(f) == Dict(EmptyDict)
ReadStatusFile(f) ==
    IF f.st = "json" /\ f.doc # EmptyDict THEN Dict(f.doc) ELSE Dict(EmptyDict)

get_bootstrap_status(force, l, r, net) ==
    LET need == NeedsDownload(force, l)
        dl == IF need THEN download_bootstrap_status(l, r, net)
              ELSE [success |-> TRUE, msg |-> "", local |-> l]
    IN  [status |-> IF dl.success THEN ReadStatusFile(dl.local) ELSE FailStatus(dl.msg),
         local |-> dl.local,
         downloaded |-> need]

\* core.py:1081, bsf_dict[key] = value
UpdateDocReplace(d, k, v) == (k :> v)
UpdateDoc(d, k, v) == (k :> v) @@ d

\* core.py:1074-1101.  nd is the outcome of the download, nu of the upload.
\* bsf_dict[key] = value raises TypeError when get_bootstrap_status returned
\* the set of core.py:962.
update_bootstrap_commit_after_upload(k, v, l, r, nd, nu) ==
    LET g == get_bootstrap_status(TRUE, l, r, nd)
    IN  IF g.status.type # "dict"
        THEN [result |-> "raised", local |-> g.local, remote |-> r, uploading |-> FALSE]
        ELSE LET f == JsonFile(UpdateDoc(g.status.dict, k, v))
             IN  IF nu = "ok"
                 THEN [result |-> "True", local |-> f, remote |-> f, uploading |-> TRUE]
                 ELSE [result |-> "False", local |-> g.local, remote |-> r, uploading |-> TRUE]
update_bootstrap(k, v, l, r, nd, nu) ==
    LET g == get_bootstrap_status(TRUE, l, r, nd)
    IN  IF g.status.type # "dict"
        THEN [result |-> "raised", local |-> g.local, remote |-> r, uploading |-> FALSE]
        ELSE LET f == JsonFile(UpdateDoc(g.status.dict, k, v))
             IN  IF nu = "ok"
                 THEN [result |-> "True", local |-> f, remote |-> f, uploading |-> TRUE]
                 ELSE [result |-> "False", local |-> f, remote |-> r, uploading |-> TRUE]

\* core.py:983-1003.  When meas_node.execute raises, the handler reads the
\* unbound names stdout and stderr and the call ends with UnboundLocalError.
clear_bootstrap_status(l, r, net) ==
    IF net = "ok"
    THEN [result |-> "None", local |-> NoFile, remote |-> NoFile]
    ELSE [result |-> "raised", local |-> NoFile, remote |-> r]

AckedAfter(k, v, u) == IF u.result = "True" THEN (k :> v) @@ acked ELSE acked

NoCall == [op |-> "none"]
\* the store was last used by a run of MFLib.init
InitCall == [op |-> "init"]

\* what the call before the current one was
After(c) ==
    IF c.op = "update"
    THEN [op |-> "update", key |-> c.key, value |-> c.value, result |-> c.result]
    ELSE [op |-> c.op]

\* core.py:364 and 487: the entries `ls` shows in the services directory
DirEntries == {"common", "prometheus", ""}

\* core.py:486-489: the entries that are services
ServiceList == {e \in DirEntries : e # "common" /\ e # ""}

\* core.py:320-367: nothing was invoked yet; the control node holds the
\* directories of the measurement framework, no uploaded directory and no
\* payload in the data slot (data/data.json) of any service
NoInvocation == [op |-> "none"]
NodeInit == [dir |-> "absent", data |-> [s \in ServiceList |-> "absent"]]

----------------------------------------------------------------------------
Init ==
    /\ remote = NoFile
    /\ local = NoFile
    /\ pc = [stage |-> 0, phase |-> "idle", val |-> ""]
    /\ bss = NoStatus
    /\ ret = "none"
    /\ ran = {}
    /\ skipped = {}
    /\ wrote = {}
    /\ failed = {}
    /\ fetched = FALSE
    /\ done = {}
    /\ acked = EmptyDict
    /\ last = NoCall
    /\ node = NodeInit
    /\ inv = NoInvocation

Idle == pc.phase = "idle"

(* Calls on the checkpoint store made by the user of the library *)

Get(force, nd) ==
    /\ Idle
    /\ LET g == get_bootstrap_status(force, local, remote, nd)
       IN  /\ local' = g.local
           /\ last' = [op |-> "get", force |-> force, nd |-> nd,
                       downloaded |-> g.downloaded, status |-> g.status,
                       after |-> After(last),
                       preLocal |-> local, preRemote |-> remote]
    /\ UNCHANGED <<remote, acked>>
    /\ UNCHANGED initVars
    /\ UNCHANGED svcVars

Update(k, v, nd, nu) ==
    /\ Idle
    /\ LET u == update_bootstrap(k, v, local, remote, nd, nu)
       IN  /\ local' = u.local
           /\ remote' = u.remote
           /\ acked' = AckedAfter(k, v, u)
           /\ last' = [op |-> "update", key |-> k, value |-> v, nd |-> nd, nu |-> nu,
                       result |-> u.result, uploading |-> u.uploading,
                       preLocal |-> local, preRemote |-> remote]
    /\ UNCHANGED initVars
    /\ UNCHANGED svcVars

Clear(net) ==
    /\ Idle
    /\ LET c == clear_bootstrap_status(local, remote, net)
       IN  /\ local' = c.local
           /\ remote' = c.remote
           /\ acked' = IF c.remote.st = "absent" THEN EmptyDict ELSE acked
           /\ done' = IF c.remote.st = "absent" THEN {} ELSE done
           /\ last' = [op |-> "clear", net |-> net, result |-> c.result,
                       preLocal |-> local, preRemote |-> remote]
    /\ UNCHANGED <<pc, bss, ret, ran, skipped, wrote, failed, fetched>>
    /\ UNCHANGED svcVars

NextStore ==
    \/ \E force \in BOOLEAN, nd \in Net : Get(force, nd)
    \/ \E k \in StoreKeys, v \in StoreVals, nd \in Net, nu \in Net : Update(k, v, nd, nu)
    \/ \E net \in Net : Clear(net)

SpecStore == Init /\ [][NextStore]_vars

----------------------------------------------------------------------------
(* Bootstrap orchestrator, MFLib.init, mflib.py:186-560 *)

Stages == 1..8
StatusStage == 9

\* the key each stage looks up in bss
PredKey(s) ==
    CASE s = 1 -> "mfuser_keys"
      [] s = 2 -> "mfuser_accounts"
      [] s = 3 -> "ipv6_4_nat"
      [] s = 4 -> "repo_cloned"
      [] s = 5 -> "meas_network"
      [] s = 6 -> "hosts_set"
      [] s = 7 -> "bootstrap_script"
      [] s = 8 -> "bootstrap_ansible"

\* the values under which the stage counts as completed
Accepts(s) == IF s = 3 THEN {"set", "not_needed"} ELSE {"ok"}

\* the key each stage hands to _update_bootstrap
WriteKey(s) ==
    CASE s = 1 -> "mfuser_keys"
      [] s = 2 -> "mfusers"
      [] s = 3 -> "ipv6_4_nat"
      [] s = 4 -> "repo_cloned"
      [] s = 5 -> "meas_network"
      [] s = 6 -> "hosts_set"
      [] s = 7 -> "bootstrap_script"
      [] s = 8 -> "bootstrap_ansible"
      [] s = 9 -> "status"

\* mflib.py:244
ReadyIsOk(b) == In("status", b) /\ b.dict["status"] = "ok"
Ready(b) == In("status", b) /\ b.dict["status"] = "ready"

\* the completion predicate of a stage, e.g. mflib.py:260
StageDone(s, b) == In(PredKey(s), b) /\ b.dict[PredKey(s)] \in Accepts(s)

\* What the action of a stage can report.
\*   stage 2: "launch_fail", node.execute_thread raised, so that
\*            mfusers_install_success is False (mflib.py:333-336);
\*            "copy_fail", meas_node.execute raised inside
\*            _copy_mfuser_keys_to_mfuser_on_meas_node, whose handler then reads
\*            the unbound name stdout (core.py:558-565) and raises
\*   stage 3: the value returned by set_DNS_all_nodes
\*   stage 4: "clone_fail", _clone_mf_repo returned False
\*   "raise": a remote call of the action raised and init does not catch it
Outcomes(s) ==
    CASE s = 1 -> {"ok"}
      [] s = 2 -> {"ok", "launch_fail", "copy_fail", "raise"}
      [] s = 3 -> {"set", "not needed", "raise"}
      [] s = 4 -> {"ok", "clone_fail", "raise"}
      [] OTHER -> {"ok", "raise"}

\* the installation step of stage 2 or the clone of stage 4 failed
HardFail(s, o) ==
    \/ s = 2 /\ o \in {"launch_fail", "copy_fail"}
    \/ s = 4 /\ o = "clone_fail"

\* how init goes on after the action of stage s reported o
StageResult(s, o) ==
    IF o \in {"raise", "copy_fail"} THEN "raise"
    ELSE IF s = 2 /\ o = "launch_fail" THEN "return_false"
    ELSE "continue"

\* the value init hands to _update_bootstrap after the action
WriteVal(s, o) == IF s = 3 THEN o ELSE "ok"

\* the stage examined after stage s was skipped or written
NextStageSame(s) == s
NextStageNested(s) == IF s = 4 THEN 6 ELSE s + 1
NextStage(s) == s + 1

PcIdle == [stage |-> 0, phase |-> "idle", val |-> ""]
PcCheck(s) ==
    IF s = StatusStage THEN [stage |-> s, phase |-> "write", val |-> "ready"]
    ELSE [stage |-> s, phase |-> "check", val |-> ""]

\* mflib.py:186-260: the prerequisite check, the read of the checkpoint and
\* the short cut taken when status is "ready".  found: the slice has a
\* measurement node; nd: outcome of the checkpoint download.
InitEntered(found, nd) ==
    /\ Idle
    /\ ran' = {} /\ skipped' = {} /\ wrote' = {} /\ failed' = {}
    /\ IF ~found
       THEN /\ ret' = "False"
            /\ bss' = NoStatus
            /\ fetched' = FALSE
            /\ pc' = PcIdle
            /\ UNCHANGED local
       ELSE LET g == get_bootstrap_status(TRUE, local, remote, nd)
            IN  /\ local' = g.local
                /\ bss' = g.status
                /\ IF Ready(g.status)
                   THEN /\ fetched' = TRUE
                        /\ ret' = "None"
                        /\ pc' = PcIdle
                   ELSE /\ fetched' = FALSE
                        /\ ret' = "running"
                        /\ pc' = PcCheck(1)
    /\ last' = InitCall
    /\ UNCHANGED <<remote, done, acked>>

InitStart(found, nd) ==
    /\ InitEntered(found, nd)
    /\ UNCHANGED svcVars

\* the predicate of stage s holds: the stage is skipped
StageSkip(s) ==
    /\ pc.phase = "check" /\ pc.stage = s
    /\ StageDone(s, bss)
    /\ skipped' = skipped \cup {s}
    /\ pc' = PcCheck(NextStage(s))
    /\ UNCHANGED <<remote, local, bss, ret, ran, wrote, failed, fetched, done, acked, last>>
    /\ UNCHANGED svcVars

\* the action of stage s is executed and reports o
StageAct(s, o) ==
    /\ pc.phase = "check" /\ pc.stage = s
    /\ ~StageDone(s, bss)
    /\ ran' = ran \cup {s}
    /\ failed' = IF HardFail(s, o) THEN failed \cup {s} ELSE failed
    /\ CASE StageResult(s, o) = "continue" ->
              /\ pc' = [stage |-> s, phase |-> "write", val |-> WriteVal(s, o)]
              /\ UNCHANGED ret
         [] StageResult(s, o) = "return_false" ->
              /\ pc' = PcIdle
              /\ ret' = "False"
         [] StageResult(s, o) = "raise" ->
              /\ pc' = PcIdle
              /\ ret' = "raised"
    /\ UNCHANGED <<remote, local, bss, skipped, wrote, fetched, done, acked, last>>
    /\ UNCHANGED svcVars

\* the checkpoint write of stage s, or of status = "ready" for stage 9.  init
\* has no handler around _update_bootstrap: its TypeError ends the run.
StageWrite(s, nd, nu) ==
    /\ pc.phase = "write" /\ pc.stage = s
    /\ LET u == update_bootstrap(WriteKey(s), pc.val, local, remote, nd, nu)
       IN  /\ local' = u.local
           /\ remote' = u.remote
           /\ acked' = AckedAfter(WriteKey(s), pc.val, u)
           /\ IF u.result = "raised"
              THEN /\ pc' = PcIdle
                   /\ ret' = "TypeError"
                   /\ UNCHANGED <<wrote, done>>
              ELSE /\ wrote' = wrote \cup {s}
                   /\ done' = IF u.result = "True" /\ s \in Stages
                              THEN done \cup {s} ELSE done
                   /\ IF s = StatusStage
                      THEN pc' = PcIdle /\ ret' = "True"
                      ELSE pc' = PcCheck(NextStage(s)) /\ UNCHANGED ret
    /\ UNCHANGED <<bss, ran, skipped, failed, fetched, last>>
    /\ UNCHANGED svcVars

NextInit ==
    \/ \E found \in BOOLEAN, nd \in Net : InitStart(found, nd)
    \/ \E s \in Stages : StageSkip(s)
    \/ \E s \in Stages : \E o \in Outcomes(s) : StageAct(s, o)
    \/ \E s \in Stages \cup {StatusStage} : \E nd \in Net, nu \in Net : StageWrite(s, nd, nu)
    \/ \E net \in Net : Clear(net)

SpecInit == Init /\ [][NextInit]_vars

\* The controlling thread of init: it is the only thread of the run, and
\* it takes its next step as soon as the remote call it waits for has
\* returned, with a result or with an error.
InitStep ==
    \/ \E s \in Stages : StageSkip(s)
    \/ \E s \in Stages : \E o \in Outcomes(s) : StageAct(s, o)
    \/ \E s \in Stages \cup {StatusStage} : \E nd \in Net, nu \in Net : StageWrite(s, nd, nu)

\* Runs of init one after the other on one topology, each meeting the
\* checkpoint files the runs before it have left; inv counts them.
MaxRuns == 2

Runs == IF inv.op = "runs" THEN inv.n ELSE 0

RunStart(found, nd) ==
    /\ inv.op \in {"none", "runs"}
    /\ Runs < MaxRuns
    /\ InitEntered(found, nd)
    /\ inv' = [op |-> "runs", n |-> Runs + 1]
    /\ UNCHANGED node

NextRuns ==
    \/ \E found \in BOOLEAN, nd \in Net : RunStart(found, nd)
    \/ InitStep

SpecRuns == Init /\ [][NextRuns]_vars

\* init under the assumption that every remote call returns
LiveRuns == SpecRuns /\ WF_vars(InitStep)

----------------------------------------------------------------------------
(* Reply parsing, Core._run_service_command, core.py:780-833                *)
(*                                                                         *)
(* The stdout of the remote command is a sequence of characters.  LF is    *)
(* the line feed; BSL and LetterN are the two characters python's          *)
(* replace("\n", "\\n") puts in its place.                                  *)

MaxOut == 7

LF == "LF"
BSL == "\\"
LetterN == "n"
OutChars == {"{", "}", "\"", ":", "1", LF}

\* str.find / str.rfind: the 0-based index of the first / last c, else -1
Find(s, c) ==
    IF \E i \in 1..Len(s) : s[i] = c
    THEN (CHOOSE i \in 1..Len(s) : s[i] = c /\ \A j \in 1..(i-1) : s[j] # c) - 1
    ELSE 0 - 1

RFind(s, c) ==
    IF \E i \in 1..Len(s) : s[i] = c
    THEN (CHOOSE i \in 1..Len(s) : s[i] = c /\ \A j \in (i+1)..Len(s) : s[j] # c) - 1
    ELSE 0 - 1

\* s[a:b] of python: a negative index counts from the end
PyIndex(s, a) ==
    IF a < 0 THEN (IF Len(s) + a < 0 THEN 0 ELSE Len(s) + a)
    ELSE (IF a > Len(s) THEN Len(s) ELSE a)

PySlice(s, a, b) ==
    LET lo == PyIndex(s, a)
        hi == PyIndex(s, b)
    IN  IF lo >= hi THEN <<>> ELSE SubSeq(s, lo + 1, hi)

\* core.py:810: jsonstr[jsonstr.find("{") : jsonstr.rfind("}") + 1]
JsonSlice(s) == PySlice(s, Find(s, "{"), RFind(s, "}") + 1)

\* core.py:812: jsonstr.replace("\n", "\\n")
RECURSIVE EscapeNewlines(_)
EscapeNewlines(s) ==
    IF s = <<>> THEN <<>>
    ELSE (IF Head(s) = LF THEN <<BSL, LetterN>> ELSE <<Head(s)>>)
         \o EscapeNewlines(Tail(s))

\* json.loads on a text of these characters: a pushdown recogniser of
\* object ::= { ws [ string ws : ws value ] ws },  value ::= number | string
\* | object.  obj collects the decoded document: the significant characters,
\* with the escape \n inside a string decoded to LF.
JsonStart == [mode |-> "start", depth |-> 0, obj |-> <<>>]
JsonFail == [mode |-> "fail", depth |-> 0, obj |-> <<>>]

JsonClose(st) ==
    [mode |-> IF st.depth = 1 THEN "done" ELSE "end",
     depth |-> st.depth - 1,
     obj |-> Append(st.obj, "}")]

JsonStep(st, c) ==
    LET to(m) == [st EXCEPT !.mode = m]
        emit(m) == [st EXCEPT !.mode = m, !.obj = Append(st.obj, c)]
        open == [mode |-> "key", depth |-> st.depth + 1, obj |-> Append(st.obj, "{")]
    IN  CASE st.mode = "start" ->
               IF c = "{" THEN open ELSE IF c = LF THEN st ELSE JsonFail
          [] st.mode = "key" ->
               IF c = LF THEN st
               ELSE IF c = "\"" THEN emit("inkey")
               ELSE IF c = "}" THEN JsonClose(st)
               ELSE JsonFail
          [] st.mode \in {"inkey", "instr"} ->
               IF c = "\"" THEN emit(IF st.mode = "inkey" THEN "colon" ELSE "end")
               ELSE IF c = BSL THEN to(IF st.mode = "inkey" THEN "keyesc" ELSE "stresc")
               ELSE IF c = LF THEN JsonFail
               ELSE emit(st.mode)
          [] st.mode \in {"keyesc", "stresc"} ->
               LET back == IF st.mode = "keyesc" THEN "inkey" ELSE "instr"
               IN  IF c = LetterN THEN [st EXCEPT !.mode = back, !.obj = Append(st.obj, LF)]
                   ELSE IF c \in {"\"", BSL} THEN emit(back)
                   ELSE JsonFail
          [] st.mode = "colon" ->
               IF c = LF THEN st ELSE IF c = ":" THEN emit("value") ELSE JsonFail
          [] st.mode = "value" ->
               IF c = LF THEN st
               ELSE IF c = "1" THEN emit("num")
               ELSE IF c = "\"" THEN emit("instr")
               ELSE IF c = "{" THEN open
               ELSE JsonFail
          [] st.mode = "num" ->
               IF c = "1" THEN emit("num")
               ELSE IF c = LF THEN to("end")
               ELSE IF c = "}" THEN JsonClose(st)
               ELSE JsonFail
          [] st.mode = "end" ->
               IF c = LF THEN st ELSE IF c = "}" THEN JsonClose(st) ELSE JsonFail
          [] st.mode = "done" ->
               IF c = LF THEN st ELSE JsonFail
          [] OTHER -> JsonFail

RECURSIVE JsonRun(_, _)
JsonRun(st, s) ==
    IF s = <<>> THEN st ELSE JsonRun(JsonStep(st, Head(s)), Tail(s))

ValidJson(s) == JsonRun(JsonStart, s).mode = "done"
JsonLoads(s) == JsonRun(JsonStart, s).obj

\* the python dict {}
EmptyReply == <<"{", "}">>

\* core.py:807-833 once execute has returned out: the parsed reply, or {}
\* when anything in the second try block raised
run_service_command_reraise(out) ==
    LET jsonstr == EscapeNewlines(JsonSlice(out))
    IN  IF ValidJson(jsonstr)
        THEN [raised |-> FALSE, ret |-> JsonLoads(jsonstr)]
        ELSE [raised |-> TRUE, ret |-> <<>>]
run_service_command(out) ==
    LET jsonstr == EscapeNewlines(JsonSlice(out))
    IN  IF ValidJson(jsonstr)
        THEN [raised |-> FALSE, ret |-> JsonLoads(jsonstr)]
        ELSE [raised |-> FALSE, ret |-> EmptyReply]

\* the remote command writes one more character to its stdout
Emit(c) ==
    /\ Idle
    /\ inv.op \in {"none", "execute"}
    /\ LET out == IF inv.op = "none" THEN <<>> ELSE inv.stdout
       IN  /\ Len(out) < MaxOut
           /\ inv' = [op |-> "execute", stdout |-> Append(out, c)]
    /\ UNCHANGED <<remote, local, acked, last, node>>
    /\ UNCHANGED initVars

\* meas_node.execute returns the stdout and _run_service_command parses it
Reply ==
    /\ Idle
    /\ inv.op = "execute"
    /\ LET r == run_service_command(inv.stdout)
       IN  inv' = [op |-> "reply", stdout |-> inv.stdout,
                   raised |-> r.raised, ret |-> r.ret]
    /\ UNCHANGED <<remote, local, acked, last, node>>
    /\ UNCHANGED initVars

NextReply ==
    \/ \E c \in OutChars : Emit(c)
    \/ Reply

SpecReply == Init /\ [][NextReply]_vars

----------------------------------------------------------------------------
(* Service commands, files and directories on the control node, core.py    *)
(*                                                                         *)
(* One invocation is one action.  Its remote calls are written to a log in *)
(* the order they are issued; the calls whose position is in F fail with a *)
(* transport error (the call raises and has no effect on the node).        *)

MaxFiles == 2
MaxServices == 2
MaxFail == 2

\* core.py:364
ServicesDirectory == <<"home", "mfuser", "services">>
ServiceNames == {"prometheus", "common", "bogus"}

\* the data argument: None, the empty dict or a dict with members
Payloads == {"none", "{}", "payload"}

\* file names and local file paths given by the caller
Path(abs, parts) == [abs |-> abs, parts |-> parts]
FileNames ==
    {Path(FALSE, <<"f">>), Path(FALSE, <<"..", "f">>), Path(TRUE, <<"etc", "f">>)}

\* os.path.join(base, p): an absolute p discards base
PathJoin(base, p) ==
    IF p.abs THEN p ELSE Path(base.abs, base.parts \o p.parts)

\* os.path.basename
BaseName(p) ==
    IF p.parts = <<>> THEN Path(FALSE, <<>>)
    ELSE Path(FALSE, <<p.parts[Len(p.parts)]>>)

\* ".." in filename
HasDotDot(p) == \E i \in 1..Len(p.parts) : p.parts[i] = ".."

\* the directory of a service and where a path leads once the node has
\* resolved its ".." components
ServiceDir(service) == Path(TRUE, Append(ServicesDirectory, service))

RECURSIVE Resolve(_, _)
Resolve(acc, rest) ==
    IF rest = <<>> THEN acc
    ELSE IF Head(rest) = ".."
         THEN Resolve(IF acc = <<>> THEN <<>> ELSE SubSeq(acc, 1, Len(acc) - 1),
                      Tail(rest))
         ELSE Resolve(Append(acc, Head(rest)), Tail(rest))

Inside(p, dir) ==
    LET r == Resolve(<<>>, p.parts)
    IN  /\ p.abs
        /\ Len(r) >= Len(dir.parts)
        /\ SubSeq(r, 1, Len(dir.parts)) = dir.parts

\* core.py:711: the temporary name of an uploaded file
TmpPath == Path(TRUE, <<"tmp", "mf_file">>)

\* core.py:858 and core.py:705-707: the remote path read / written
DownloadPath(service, filename) == PathJoin(ServiceDir(service), filename)
UploadPath(service, file) ==
    PathJoin(PathJoin(ServiceDir(service), Path(FALSE, <<"files">>)), BaseName(file))

\* the log of remote calls of one invocation;
\* the most calls one invocation issues: create with MaxFiles files, or
\* start with MaxServices services
MaxCalls ==
    IF 3 * MaxServices > 3 + 2 * MaxFiles THEN 3 * MaxServices
    ELSE 3 + 2 * MaxFiles
FailSets == {F \in SUBSET (1..MaxCalls) : Cardinality(F) <= MaxFail}

Call(log, kind, what, service, arg, F) ==
    Append(log, [kind |-> kind, what |-> what, service |-> service,
                 arg |-> arg, ok |-> (Len(log) + 1) \notin F])
LastOk(log) == log[Len(log)].ok

\* values an invocation returns
NoRet == [kind |-> "none"]
RetBool(b) == [kind |-> "bool", val |-> b]
RetResult(success) == [kind |-> "result", success |-> success]
RetReply(doc) == [kind |-> "reply", doc |-> doc]
RetList(entries) == [kind |-> "list", entries |-> entries]

\* a step of a method: the log so far, the node, the exception that left
\* the method ("none" when it returned) and the value returned
Step(log, nd, raised, val) ==
    [log |-> log, node |-> nd, raised |-> raised, ret |-> val]

\* core.py:480-491: one execute of ls, not in a try block; "common" and the
\* empty line are dropped
get_service_list(log, F) ==
    LET l == Call(log, "execute", "ls", "", "", F)
    IN  [log |-> l,
         raised |-> IF LastOk(l) THEN "none" ELSE "transport",
         list |-> IF LastOk(l) THEN ServiceList ELSE {}]

\* what a service command may print
Stdouts == {<<"{", "}">>, <<"{", "\"", "\"", ":", "1", "}">>, <<"1">>}

\* sudo mv <tmp name> <final path>: it moves the file when the directory of
\* the service exists, else the file stays under its temporary name
Moved(nd, service, what) ==
    IF service \in DirEntries \ {""} THEN nd
    ELSE [nd EXCEPT !.tmp = @ \cup {what}]

\* core.py:630-633: `if data:` is false for None and for the empty dict
Truthy(data) == data \notin {"none", "{}"}
Staged(data) == IF Truthy(data) THEN data ELSE "{}"

\* the moved file is the new content of the data slot of the service
StoredNothing(nd, service, staged) == nd
Stored(nd, service, staged) ==
    IF service \in DOMAIN nd.data THEN [nd EXCEPT !.data[service] = staged]
    ELSE nd

\* what the data slot of the service holds
Slot(nd, service) ==
    IF service \in DOMAIN nd.data THEN nd.data[service] ELSE "no slot"

\* core.py:641-686.  stdout and stderr are bound by the execute only, and the
\* handler reads them: a failed upload_file or execute ends in
\* UnboundLocalError.  The local temporary file is written before the
\* upload and removed by the last statement of the try block only.
upload_service_data(service, data, log, nd, F) ==
    LET staged == Staged(data)
        n0 == [nd EXCEPT !.tmp = @ \cup {"local data"}]
        l1 == Call(log, "upload_file", "data", service, staged, F)
        n1 == [n0 EXCEPT !.tmp = @ \cup {"data"}]
        l2 == Call(l1, "execute", "mv data", service, staged, F)
    IN  IF ~LastOk(l1) THEN Step(l1, n0, "UnboundLocalError", NoRet)
        ELSE IF ~LastOk(l2) THEN Step(l2, n1, "UnboundLocalError", NoRet)
        ELSE Step(l2, Stored(Moved(nd, service, "data"), service, staged),
                  "none", RetBool(TRUE))

\* core.py:688-732, the loop from the i-th file on.  The handler reads the
\* stdout of the previous file's execute; there is none for the first file.
\* The success message reads filename, unbound when files is empty.
RECURSIVE upload_files_from(_, _, _, _, _, _)
upload_files_from(service, files, i, log, nd, F) ==
    IF i > Len(files)
    THEN (IF files = <<>> THEN Step(log, nd, "UnboundLocalError", NoRet)
          ELSE Step(log, nd, "none", RetResult(TRUE)))
    ELSE LET dst == UploadPath(service, files[i])
             l1 == Call(log, "upload_file", "tmp file", service, TmpPath, F)
             n1 == [nd EXCEPT !.tmp = @ \cup {"file"}]
             l2 == Call(l1, "execute", "mv file", service, dst, F)
             failed_at(l, n) == IF i = 1 THEN Step(l, n, "UnboundLocalError", NoRet)
                                ELSE Step(l, n, "none", RetResult(FALSE))
         IN  IF ~LastOk(l1) THEN failed_at(l1, nd)
             ELSE IF ~LastOk(l2) THEN failed_at(l2, n1)
             ELSE upload_files_from(service, files, i + 1, l2,
                                    Moved(nd, service, "file"), F)

upload_service_files_internal(service, files, log, nd, F) ==
    upload_files_from(service, files, 1, log, nd, F)

\* core.py:780-833 with the execute: when it fails, stdout is unbound, the
\* second try block raises and its handler raises again at print(stdout)
run_service_command_on_node(service, command, out, log, nd, F) ==
    LET l == Call(log, "execute", "command", service,
                  [command |-> command, data |-> Slot(nd, service)], F)
        r == run_service_command(out)
    IN  IF ~LastOk(l) THEN Step(l, nd, "UnboundLocalError", NoRet)
        ELSE Step(l, nd, IF r.raised THEN "JSONDecodeError" ELSE "none",
                  IF r.raised THEN NoRet ELSE RetReply(r.ret))

\* core.py:616-639: the results of the two uploads are not looked at
run_on_meas_node(service, command, data, files, out, log, nd, F) ==
    LET d == upload_service_data(service, data, log, nd, F)
        f == IF files # <<>>
             THEN upload_service_files_internal(service, files, d.log, d.node, F)
             ELSE d
    IN  IF d.raised # "none" THEN d
        ELSE IF f.raised # "none" THEN f
        ELSE run_service_command_on_node(service, command, out, f.log, f.node, F)

\* the validation of the service name against the listing
ValidServiceAny(service, list) == TRUE
ValidService(service, list) == service \in list

\* core.py:402-419
info(service, data, out, nd, F) ==
    LET g == get_service_list(<<>>, F)
    IN  IF g.raised # "none" THEN Step(g.log, nd, g.raised, NoRet)
        ELSE IF ~ValidService(service, g.list)
             THEN Step(g.log, nd, "none", RetResult(FALSE))
        ELSE run_on_meas_node(service, "info", data, <<>>, out, g.log, nd, F)

\* core.py:421-476: the loop of start, stop and remove from the i-th service
\* on; remove has no return statement
RECURSIVE run_each(_, _, _, _, _, _, _, _)
run_each(command, services, i, entries, out, log, nd, F) ==
    IF i > Len(services)
    THEN Step(log, nd, "none",
              IF command = "remove" THEN NoRet ELSE RetList(entries))
    ELSE LET r == run_on_meas_node(services[i], command, "none", <<>>, out,
                                   log, nd, F)
         IN  IF r.raised # "none" THEN r
             ELSE run_each(command, services, i + 1,
                           Append(entries, [service |-> services[i],
                                            results |-> r.ret]),
                           out, r.log, r.node, F)

\* core.py:1140-1163 and 835-867.  The handler of a failed download calls
\* core_logger.exception() without its message argument: TypeError.
download_service_file(service, filename, nd, F) ==
    LET g == get_service_list(<<>>, F)
        l == Call(g.log, "download_file", "file", service,
                  DownloadPath(service, filename), F)
    IN  IF g.raised # "none" THEN Step(g.log, nd, g.raised, NoRet)
        ELSE IF ~ValidService(service, g.list)
             THEN Step(g.log, nd, "none", RetResult(FALSE))
        ELSE IF HasDotDot(filename)
             THEN Step(g.log, nd, "none", RetResult(FALSE))
        ELSE IF LastOk(l) THEN Step(l, nd, "none", RetResult(TRUE))
        ELSE Step(l, nd, "TypeError", NoRet)

\* core.py:1165-1187
upload_service_files(service, files, nd, F) ==
    LET g == get_service_list(<<>>, F)
    IN  IF g.raised # "none" THEN Step(g.log, nd, g.raised, NoRet)
        ELSE IF ~ValidService(service, g.list)
             THEN Step(g.log, nd, "none", RetResult(FALSE))
        ELSE upload_service_files_internal(service, files, g.log, nd, F)

\* what the target directory on the node may hold
Contents == {"v1", "v2"}

\* core.py:760-765: an existing directory is only replaced with force
OverwriteRefusedNever(exists, force) == FALSE
OverwriteRefused(exists, force) == exists /\ ~force

\* sudo rm -rf <final>/<name>
RemoveTreeKeep(dir) == dir
RemoveTree(dir) == "absent"

\* sudo mv -f <tmp>/<name> <final>: mv does not replace a directory that is
\* not empty
MoveInto(dir, content) == IF dir = "absent" THEN content ELSE dir

\* core.py:1189-1212 and 734-778.  The existence test and the rm -rf are not
\* in the try block; the upload and the move are.
upload_service_directory(service, hasParent, content, force, nd, F) ==
    LET g == get_service_list(<<>>, F)
        l1 == Call(g.log, "execute", "test -d", service, "", F)
        exists == nd.dir # "absent"
        l2 == IF exists THEN Call(l1, "execute", "rm -rf", service, "", F) ELSE l1
        n2 == IF exists THEN [nd EXCEPT !.dir = RemoveTree(@)] ELSE nd
        l3 == Call(l2, "upload_directory", "dir", service, content, F)
        n3 == [n2 EXCEPT !.tmp = @ \cup {"dir"}]
        l4 == Call(l3, "execute", "mv dir", service, content, F)
        n4 == [n2 EXCEPT !.dir = MoveInto(@, content)]
    IN  IF g.raised # "none" THEN Step(g.log, nd, g.raised, NoRet)
        ELSE IF ~ValidService(service, g.list)
             THEN Step(g.log, nd, "none", RetResult(FALSE))
        ELSE IF ~hasParent THEN Step(g.log, nd, "none", RetResult(FALSE))
        ELSE IF ~LastOk(l1) THEN Step(l1, nd, "transport", NoRet)
        ELSE IF OverwriteRefused(exists, force)
             THEN Step(l1, nd, "none", RetResult(FALSE))
        ELSE IF ~LastOk(l2) THEN Step(l2, nd, "transport", NoRet)
        ELSE IF ~LastOk(l3) THEN Step(l3, n2, "none", RetResult(FALSE))
        ELSE IF ~LastOk(l4) THEN Step(l4, n3, "none", RetResult(FALSE))
        ELSE Step(l4, n4, "none", RetResult(TRUE))

\* bounded inputs
RECURSIVE SeqsUpTo(_, _)
SeqsUpTo(S, n) ==
    IF n = 0 THEN {<<>>}
    ELSE LET shorter == SeqsUpTo(S, n - 1)
         IN  shorter \cup {Append(q, x) : q \in shorter, x \in S}

FileLists == SeqsUpTo(FileNames, MaxFiles)
ServiceLists == SeqsUpTo(ServiceNames, MaxServices)

\* the record of an invocation that has ended
\* the node at the begin of an invocation, with the set of temporary files
\* (local and on the node) that the invocation leaves behind
Working == [dir |-> node.dir, data |-> node.data, tmp |-> {}]

Invocation(op, args, r) ==
    [op |-> op, args |-> args, calls |-> r.log, raised |-> r.raised,
     ret |-> r.ret, pre |-> node, left |-> r.node.tmp]

AtRest == Idle /\ inv.op = "none"

Ended(op, args, r) ==
    /\ inv' = Invocation(op, args, r)
    /\ node' = [dir |-> r.node.dir, data |-> r.node.data]
    /\ UNCHANGED <<remote, local, acked, last>>
    /\ UNCHANGED initVars

CreateOrUpdate(op, service, data, files, out, F) ==
    /\ AtRest
    /\ Ended(op, [service |-> service, data |-> data, files |-> files],
             run_on_meas_node(service, op, data, files, out, <<>>, Working, F))

Info(service, data, out, F) ==
    /\ AtRest
    /\ Ended("info", [service |-> service, data |-> data],
             info(service, data, out, Working, F))

StartStopRemove(op, services, out, F) ==
    /\ AtRest
    /\ Ended(op, [services |-> services],
             run_each(op, services, 1, <<>>, out, <<>>, Working, F))

DownloadServiceFile(service, filename, F) ==
    /\ AtRest
    /\ Ended("download_service_file", [service |-> service, filename |-> filename],
             download_service_file(service, filename, Working, F))

UploadServiceFiles(service, files, F) ==
    /\ AtRest
    /\ Ended("upload_service_files", [service |-> service, files |-> files],
             upload_service_files(service, files, Working, F))

UploadServiceDirectory(service, hasParent, content, force, F) ==
    /\ AtRest
    /\ Ended("upload_service_directory",
             [service |-> service, hasParent |-> hasParent,
              content |-> content, force |-> force],
             upload_service_directory(service, hasParent, content, force, Working, F))

\* the methods of Core invoked on the control node
Methods ==
    {"create", "update", "info", "start", "stop", "remove",
     "download_service_file", "upload_service_files", "upload_service_directory"}

\* the caller has the result; the next invocation may begin
Return ==
    /\ Idle
    /\ inv.op \in Methods
    /\ inv' = NoInvocation
    /\ UNCHANGED <<remote, local, acked, last, node>>
    /\ UNCHANGED initVars

NextDispatch ==
    \/ /\ AtRest
       /\ \E op \in {"create", "update"}, service \in ServiceNames,
             data \in Payloads, files \in FileLists, out \in Stdouts,
             F \in FailSets :
               CreateOrUpdate(op, service, data, files, out, F)
    \/ /\ AtRest
       /\ \E service \in ServiceNames, data \in Payloads, out \in Stdouts,
             F \in FailSets :
               Info(service, data, out, F)
    \/ /\ AtRest
       /\ \E op \in {"start", "stop", "remove"}, services \in ServiceLists,
             out \in Stdouts, F \in FailSets :
               StartStopRemove(op, services, out, F)
    \/ /\ AtRest
       /\ \E service \in ServiceNames, filename \in FileNames, F \in FailSets :
               DownloadServiceFile(service, filename, F)
    \/ /\ AtRest
       /\ \E service \in ServiceNames, files \in FileLists, F \in FailSets :
               UploadServiceFiles(service, files, F)
    \/ /\ AtRest
       /\ \E service \in ServiceNames, hasParent \in BOOLEAN,
             content \in Contents, force \in BOOLEAN, F \in FailSets :
               UploadServiceDirectory(service, hasParent, content, force, F)
    \/ Return

SpecDispatch == Init /\ [][NextDispatch]_vars

----------------------------------------------------------------------------
(* Measurement topology and hosts inventory, mflib.py:109-165 and 597-674  *)
(*                                                                         *)
(* A node name is a sequence of pieces, so that the substring test of      *)
(* mflib.py:667 can be told from equality of names.                        *)

MaxNodes == 2

Sites == {"A", "B"}
MeasNodeName == <<"_meas_node">>
\* core.py:362, self.measurement_node_name
measurement_node_name == <<"meas-node">>
NodeNames == {<<"n1">>, <<"n2">>, <<"x", "_meas_node">>, measurement_node_name}

\* "_meas_node" in <text that begins with the node name>
HasMeasName(name) == \E i \in 1..Len(name) : name[i] = "_meas_node"

\* mflib.py:125-134, 142-151: the sites in the order their first node is
\* met, each with the interfaces of its nodes in node order
RECURSIVE SitesInOrder(_)
SitesInOrder(nodes) ==
    IF nodes = <<>> THEN <<>>
    ELSE LET before == SitesInOrder(SubSeq(nodes, 1, Len(nodes) - 1))
             site == nodes[Len(nodes)].site
         IN  IF \E i \in 1..Len(before) : before[i] = site THEN before
             ELSE Append(before, site)

NodesAt(nodes, site) == SelectSeq(nodes, LAMBDA n : n.site = site)

\* mflib.py:152-155, the name f"l3_meas_net_{site}", in pieces
NetName(site) == <<"l3_meas_net_", site>>

\* mflib.py:135-151: the measurement node is added last, with an interface
\* on the network of its site; one l3_meas_net_<site> per site
add_meas_node(nodes, site) ==
    LET all == Append(nodes, [name |-> MeasNodeName, site |-> site])
        sites == SitesInOrder(all)
    IN  [nodes |-> all,
         nets |-> [i \in 1..Len(sites) |->
                     [name |-> NetName(sites[i]), type |-> "FABNetv4",
                      site |-> sites[i],
                      interfaces |-> [k \in 1..Len(NodesAt(all, sites[i])) |->
                                        NodesAt(all, sites[i])[k].name]]]]

\* a network the experimenter has put into the slice beside the
\* measurement networks, with the experiment nodes on it
UserNetwork(nodes) ==
    [name |-> <<"net1">>, type |-> "FABNetv4", site |-> "none",
     interfaces |-> [k \in 1..(Len(nodes) - 1) |-> nodes[k].name]]

\* slice.get_networks()
get_networks(t, extra) == IF extra THEN <<UserNetwork(t.nodes)>> \o t.nets ELSE t.nets

\* mflib.py:614-616 and 631-633
IsMeasNetwork(n) == n.type = "FABNetv4" /\ n.name[1] = "l3_meas_net_"

\* what the network gives: its subnet, its gateway, and the addresses of
\* the subnet that are free, in the order of the pool
Subnet(n) == [subnet |-> n.name]
Gateway(n) == [gateway |-> n.name]
get_available_ips(n) == [k \in 1..(MaxNodes + 1) |-> [subnet |-> n.name, host |-> k]]

\* mflib.py:621, available_ips.pop(0)
PopFirstKeeps(pool) == pool
PopFirst(pool) == Tail(pool)

Route(subnet, gateway) == [subnet |-> subnet, gateway |-> gateway]

\* mflib.py:626-633: the networks the loop of the measurement node does
\* not pass over
OtherMeasNetworksAndOwn(network, networks) ==
    SelectSeq(networks, LAMBDA o : IsMeasNetwork(o))
OtherMeasNetworks(network, networks) ==
    SelectSeq(networks, LAMBDA o : o.name # network.name /\ IsMeasNetwork(o))

\* mflib.py:625-642: the routes added on the node of an interface
RoutesOf(name, network, networks, meas_network) ==
    IF name = MeasNodeName
    THEN LET others == OtherMeasNetworks(network, networks)
         IN  [i \in 1..Len(others) |-> Route(Subnet(others[i]), Gateway(network))]
    ELSE <<Route(Subnet(meas_network), Gateway(network))>>

\* mflib.py:620-650: the loop over the interfaces of one network
RECURSIVE configure_interfaces(_, _, _, _, _)
configure_interfaces(interfaces, available_ips, network, networks, meas_network) ==
    IF interfaces = <<>> THEN <<>>
    ELSE <<[name |-> Head(interfaces), ip |-> Head(available_ips),
            network |-> network.name,
            routes |-> RoutesOf(Head(interfaces), network, networks, meas_network)]>>
         \o configure_interfaces(Tail(interfaces), PopFirst(available_ips),
                                 network, networks, meas_network)

\* mflib.py:611-650: the loop over the networks, from the i-th on
RECURSIVE configure_networks(_, _, _)
configure_networks(networks, i, meas_network) ==
    IF i > Len(networks) THEN <<>>
    ELSE (IF IsMeasNetwork(networks[i])
          THEN configure_interfaces(networks[i].interfaces, get_available_ips(networks[i]),
                                    networks[i], networks, meas_network)
          ELSE <<>>)
         \o configure_networks(networks, i + 1, meas_network)

\* mflib.py:604-608: the network of the site of the node named _meas_node
MeasNetwork(t, networks) ==
    LET meas_node == CHOOSE n \in {t.nodes[i] : i \in 1..Len(t.nodes)} : n.name = MeasNodeName
    IN  CHOOSE n \in {networks[i] : i \in 1..Len(networks)} : n.name = NetName(meas_node.site)

\* mflib.py:643-650: the host line of an interface
HostLine(c) == [kind |-> "host", name |-> c.name, ip |-> c.ip]

HostLines(configured) == [i \in 1..Len(configured) |-> HostLine(configured[i])]

MeasHeader == [kind |-> "header", text |-> "[Meas_Node]"]
ExperimentHeader == [kind |-> "header", text |-> "[Experiment_Nodes]"]
Blank == [kind |-> "blank"]
HostsTail ==
    <<Blank, Blank, [kind |-> "header", text |-> "[elk:children]"],
      [kind |-> "ref", text |-> "Meas_Node"], Blank,
      [kind |-> "header", text |-> "[workers:children]"],
      [kind |-> "ref", text |-> "Experiment_Nodes"]>>

\* mflib.py:664-674: the lines of hosts.ini
RECURSIVE MeasBlocks(_)
MeasBlocks(hosts) ==
    IF hosts = <<>> THEN <<>>
    ELSE (IF HasMeasName(Head(hosts).name) THEN <<MeasHeader, Head(hosts), Blank>>
          ELSE <<>>)
         \o MeasBlocks(Tail(hosts))

ExperimentLines(hosts) == SelectSeq(hosts, LAMBDA h : ~HasMeasName(h.name))

hosts_txt(hosts) ==
    MeasBlocks(hosts) \o <<ExperimentHeader>> \o ExperimentLines(hosts) \o HostsTail

\* core.py:598-614: the first node of slice.get_nodes() whose name is
\* self.measurement_node_name, or None
NotFound == [name |-> <<>>, site |-> "none"]
find_meas_node(nodes) ==
    LET hits == {i \in 1..Len(nodes) : nodes[i].name = measurement_node_name}
    IN  IF hits = {} THEN NotFound
        ELSE nodes[CHOOSE i \in hits : \A j \in hits : i <= j]

\* the experimenter adds a node to the slice
AddNode(name, site) ==
    /\ Idle
    /\ inv.op \in {"none", "slice"}
    /\ LET nodes == IF inv.op = "none" THEN <<>> ELSE inv.nodes
       IN  /\ Len(nodes) < MaxNodes
           /\ \A i \in 1..Len(nodes) : nodes[i].name # name
           /\ inv' = [op |-> "slice", nodes |-> Append(nodes, [name |-> name, site |-> site])]
    /\ UNCHANGED <<remote, local, acked, last, node>>
    /\ UNCHANGED initVars

\* MFLib.addMeasNode(slice, site = site)
AddMeasNode(site) ==
    /\ Idle
    /\ inv.op \in {"none", "slice"}
    /\ LET t == add_meas_node(IF inv.op = "none" THEN <<>> ELSE inv.nodes, site)
       IN  inv' = [op |-> "topology", nodes |-> t.nodes, nets |-> t.nets]
    /\ UNCHANGED <<remote, local, acked, last, node>>
    /\ UNCHANGED initVars

\* mflib.py:216-231: init looks for the measurement node and returns
\* False when self.meas_node is None
InitFindsMeasNode ==
    /\ Idle
    /\ inv.op = "topology"
    /\ LET control == find_meas_node(inv.nodes)
       IN  inv' = [op |-> "init", nodes |-> inv.nodes, nets |-> inv.nets,
                   control |-> control,
                   ret |-> IF control = NotFound THEN "False" ELSE "goes on"]
    /\ UNCHANGED <<remote, local, acked, last, node>>
    /\ UNCHANGED initVars

\* _make_hosts_ini_file, every remote call of it returning; control is
\* what self.meas_node is for the upload of the file
MakeHostsIni(extra) ==
    /\ Idle
    /\ inv.op \in {"topology", "init"}
    /\ inv.op = "init" => inv.ret = "goes on"
    /\ LET networks == get_networks(inv, extra)
           configured == configure_networks(networks, 1, MeasNetwork(inv, networks))
       IN  inv' = [op |-> "hosts_ini", nodes |-> inv.nodes, nets |-> inv.nets,
                   networks |-> networks, configured |-> configured,
                   control |-> find_meas_node(inv.nodes),
                   hosts |-> HostLines(configured),
                   text |-> hosts_txt(HostLines(configured))]
    /\ UNCHANGED <<remote, local, acked, last, node>>
    /\ UNCHANGED initVars

NextHosts ==
    \/ \E name \in NodeNames, site \in Sites : AddNode(name, site)
    \/ \E site \in Sites : AddMeasNode(site)
    \/ InitFindsMeasNode
    \/ \E extra \in BOOLEAN : MakeHostsIni(extra)

SpecHosts == Init /\ [][NextHosts]_vars

----------------------------------------------------------------------------
(* Two controllers on one topology, core.py:1074-1101.                     *)
(* Each controller runs _update_bootstrap on its own machine: it has its   *)
(* own local cache, and shares only bootstrap_status.json on the meas      *)
(* node.  The call is split at its two remote operations, the download of  *)
(* get_bootstrap_status and the upload; what lies between them touches     *)
(* only the controller's own file.  The calls of one round are kept in     *)
(* inv, with the order of their remote operations.                         *)

Controllers == {"c1", "c2"}

\* mflib.py:308 and 511: two of the keys MFLib.init checkpoints
TwoKeys == {"mfuser_keys", "repo_cloned"}

\* a controller that is not inside _update_bootstrap
Outside(f) == [at |-> "idle", file |-> f]

TwoInit == [op |-> "two", ctl |-> [c \in Controllers |-> Outside(NoFile)], order |-> <<>>]
Two == IF inv.op = "two" THEN inv ELSE TwoInit

\* core.py:1086-1094: meas_node.upload_file sends the whole local document
upload_bootstrap_status_lost(f, r, nu) == r
upload_bootstrap_status(f, r, nu) == IF nu = "ok" THEN f ELSE r

Took(c, step) == [c |-> c, step |-> step]

TwoStep(t) ==
    /\ Idle
    /\ inv.op \in {"none", "two"}
    /\ inv' = t
    /\ UNCHANGED <<local, acked, last, node>>
    /\ UNCHANGED initVars

\* core.py:1074, the call _update_bootstrap(key, value) is entered
Enter(c, k, v) ==
    /\ Two.ctl[c].at = "idle"
    /\ TwoStep([Two EXCEPT !.ctl[c] = [at |-> "entered", key |-> k, value |-> v,
                                       file |-> @.file]])
    /\ UNCHANGED remote

\* core.py:1078-1084: get_bootstrap_status downloads the remote document,
\* bsf_dict[key] = value, and the result is dumped into the local file
Stage(c, nd) ==
    /\ Two.ctl[c].at = "entered"
    /\ LET me == Two.ctl[c]
           g == get_bootstrap_status(TRUE, me.file, remote, nd)
       IN  TwoStep([Two EXCEPT
               !.ctl[c] = IF g.status.type # "dict"
                          THEN [me EXCEPT !.at = "returned", !.file = g.local]
                                   @@ [result |-> "raised"]
                          ELSE [me EXCEPT !.at = "staged",
                                   !.file = JsonFile(UpdateDoc(g.status.dict, me.key, me.value))],
               !.order = Append(@, Took(c, "download"))])
    /\ UNCHANGED remote

\* core.py:1086-1101: the upload and the return value
Upload(c, nu) ==
    /\ Two.ctl[c].at = "staged"
    /\ LET me == Two.ctl[c]
       IN  /\ remote' = upload_bootstrap_status(me.file, remote, nu)
           /\ TwoStep([Two EXCEPT
                  !.ctl[c] = [me EXCEPT !.at = "returned"]
                                 @@ [result |-> IF nu = "ok" THEN "True" ELSE "False"],
                  !.order = Append(@, Took(c, "upload"))])

\* every call that was entered has returned; the next round starts
Settled ==
    /\ inv.op = "two"
    /\ \A c \in Controllers : inv.ctl[c].at \in {"idle", "returned"}
    /\ \E c \in Controllers : inv.ctl[c].at = "returned"

NextRound ==
    /\ Settled
    /\ TwoStep([op |-> "two",
                ctl |-> [c \in Controllers |-> Outside(inv.ctl[c].file)],
                order |-> <<>>])
    /\ UNCHANGED remote

NextTwo ==
    \/ \E c \in Controllers, k \in TwoKeys, v \in StoreVals : Enter(c, k, v)
    \/ \E c \in Controllers, nd \in Net : Stage(c, nd)
    \/ \E c \in Controllers, nu \in Net : Upload(c, nu)
    \/ NextRound

SpecTwo == Init /\ [][NextTwo]_vars

----------------------------------------------------------------------------
(* The account stage of MFLib.init, mflib.py:318-482, node by node.        *)
(* node.execute_thread hands a command to the thread pool of the remote    *)
(* executor and returns a future, or raises; the task then runs beside the *)
(* controlling thread and ends by returning (stdout, stderr) or by         *)
(* raising; thread.result() waits for the end of the task and re-raises    *)
(* what the task raised.  node.upload_file is an ordinary blocking call.   *)
(* The run of the stage is kept in inv.                                    *)

\* mflib.py:326, 346, 368: the nodes slice.get_nodes() lists, in its order
TopologyNodes == 1..MaxNodes

\* mflib.py:325-462: the steps of the stage, in the order of the code
AccountSteps ==
    <<"useradd", "mkdir ssh", "sudoers", "upload keys", "mv keys",
      "authorized_keys", "chmod authorized_keys">>

\* mflib.py:389-394: the keys are uploaded with the blocking upload_file
Blocking(s) == AccountSteps[s] = "upload keys"

\* mflib.py:325, 345, 367, 407, 430, 452 set threads = []; the upload loop
\* of mflib.py:389 appends to the list the sudoers step has left
FreshThreads(s, threads) == IF Blocking(s) THEN threads ELSE <<>>

Task(s, n) == [step |-> s, node |-> n]

\* core.py:598-614: the node of slice.get_nodes() that init holds as
\* self.meas_node; addMeasNode adds it after the experiment nodes
ControlNode == MaxNodes

\* a failure on node n in step s: the nodes that saw a failure in the run,
\* and the nodes on which the account-creation command (useradd) failed
Failure(r, s, n) ==
    [r EXCEPT !.hurt = @ \cup {n},
              !.addFailed = IF AccountSteps[s] = "useradd" THEN @ \cup {n} ELSE @]
Attributes(n) == [file |-> "mfuser.pub", node |-> n]

\* the controlling thread enters the loop of step s
AtStep(r, s) ==
    [r EXCEPT !.step = s, !.phase = "launch", !.at = 1,
              !.threads = FreshThreads(s, r.threads),
              !.issued = {}, !.refused = {}]

AccountsStart ==
    AtStep([op |-> "accounts", step |-> 1, phase |-> "launch", at |-> 1,
            threads |-> <<>>, issued |-> {}, refused |-> {},
            running |-> {}, raised |-> {}, success |-> TRUE,
            hurt |-> {}, addFailed |-> {}], 1)

AccountsStep(r) ==
    /\ Idle
    /\ inv' = r
    /\ UNCHANGED <<remote, local, acked, last, node>>
    /\ UNCHANGED initVars

\* mflib.py:318-323
AccountsBegin ==
    /\ inv.op = "none"
    /\ AccountsStep(AccountsStart)

InAccounts(phase) == inv.op = "accounts" /\ inv.phase = phase

\* what follows the launch loop of a step: the join loop, or for the
\* upload of the keys the next step
AfterLaunch(r) ==
    IF Blocking(r.step) THEN AtStep(r, r.step + 1)
    ELSE [r EXCEPT !.phase = "join", !.at = 1]

\* where the launch loop goes after the body for one node: the except
\* clause is inside the loop, which goes on with the next node
NextNodeStopOnFailure(r, launched) ==
    IF launched THEN [r EXCEPT !.at = @ + 1] ELSE [r EXCEPT !.at = MaxNodes + 1]
NextNode(r, launched) == [r EXCEPT !.at = @ + 1]

\* mflib.py:326-337 and the same loops of the other steps: one pass of
\* the body of the launch loop, for the node at position inv.at
Launch(launched) ==
    /\ InAccounts("launch")
    /\ inv.at \in TopologyNodes
    /\ LET n == inv.at
           entry == IF Blocking(inv.step) THEN Attributes(n) ELSE Task(inv.step, n)
           r == IF launched
                THEN [inv EXCEPT !.threads = Append(@, entry),
                                 !.issued = @ \cup {n},
                                 !.running = IF Blocking(inv.step) THEN @
                                             ELSE @ \cup {Task(inv.step, n)}]
                ELSE Failure([inv EXCEPT !.refused = @ \cup {n}, !.success = FALSE],
                             inv.step, n)
       IN  AccountsStep(NextNode(r, launched))

\* the launch loop has gone through slice.get_nodes()
Launched ==
    /\ InAccounts("launch")
    /\ inv.at \notin TopologyNodes
    /\ AccountsStep(AfterLaunch(inv))

\* how a task ends: the command succeeded, the command failed and left
\* its message in stderr, or node.execute raised
TaskOutcomes == {"returned", "stderr", "raised"}

\* a task of the thread pool ends
TaskEnds(t, how) ==
    /\ inv.op = "accounts"
    /\ t \in inv.running
    /\ LET r == [inv EXCEPT !.running = @ \ {t},
                            !.raised = IF how = "raised" THEN @ \cup {t} ELSE @]
       IN  AccountsStep(IF how = "returned" THEN r ELSE Failure(r, t.step, t.node))

\* thread.result() returns once the task has ended
ResultReadyAlways(r, t) == TRUE
ResultReady(r, t) == t \notin r.running

\* where the join loop goes after the last thread: the next step, or
\* mflib.py:474 after the last one
AfterJoin(r) ==
    IF r.step < Len(AccountSteps) THEN AtStep(r, r.step + 1)
    ELSE [r EXCEPT !.phase = "copy"]

\* mflib.py:339-343 and the same loops of the other steps: one pass of
\* the body of the join loop; an exception of the task leaves init
Collect ==
    /\ InAccounts("join")
    /\ IF inv.at > Len(inv.threads)
       THEN AccountsStep(AfterJoin(inv))
       ELSE LET t == inv.threads[inv.at]
            IN  /\ ResultReady(inv, t)
                /\ AccountsStep(IF t \in inv.raised
                                THEN [inv EXCEPT !.phase = "raised"]
                                ELSE [inv EXCEPT !.at = @ + 1])

\* mflib.py:474-484 and core.py:540-567: the keys are copied on the meas
\* node; when meas_node.execute raises there, the handler reads the unbound
\* stdout and init is left with UnboundLocalError.  Otherwise the stage
\* goes on to stage 3 when mfusers_install_success, and returns False when
\* not.
Conclude(copied) ==
    /\ InAccounts("copy")
    /\ AccountsStep(IF copied THEN [inv EXCEPT !.phase = "done"]
                    ELSE [inv EXCEPT !.phase = "raised", !.hurt = @ \cup {ControlNode}])

NextAccounts ==
    \/ AccountsBegin
    \/ \E launched \in BOOLEAN : Launch(launched)
    \/ Launched
    \/ \E s \in 1..Len(AccountSteps), n \in TopologyNodes, how \in TaskOutcomes :
          TaskEnds(Task(s, n), how)
    \/ Collect
    \/ \E copied \in BOOLEAN : Conclude(copied)

SpecAccounts == Init /\ [][NextAccounts]_vars

----------------------------------------------------------------------------
(* Stage 3 of MFLib.init, the DNS of IPv6-only nodes, mflib.py:489-500 and *)
(* 729-795.  The slice is the sequence of what node.validIPAddress gives   *)
(* for the management address of each node.                                *)

AddressKinds == {"IPv4", "IPv6", "Invalid"}

\* mflib.py:741 and 771
NeedsDNSUnlessIPv4(ip) == ip # "IPv4"
NeedsDNS(ip) == ip = "IPv6"

\* mflib.py:739-747: the loop over slice.get_nodes(), from node i on.
\* failAt is the node on which node.execute raises inside set_DNS, 0 for
\* none; the exception leaves set_DNS_all_nodes.
RECURSIVE dns_loop(_, _, _, _, _)
dns_loop(ips, i, failAt, configured, nat64_set) ==
    IF i > Len(ips)
    THEN [raised |-> FALSE, configured |-> configured,
          result |-> IF nat64_set THEN "set" ELSE "not needed"]
    ELSE IF ~NeedsDNS(ips[i]) THEN dns_loop(ips, i + 1, failAt, configured, nat64_set)
    ELSE IF failAt = i THEN [raised |-> TRUE, configured |-> configured, result |-> "none"]
    ELSE dns_loop(ips, i + 1, failAt, configured \cup {i}, TRUE)

set_DNS_all_nodes(ips, failAt) == dns_loop(ips, 1, failAt, {}, FALSE)

DNSStep ==
    /\ Idle
    /\ UNCHANGED <<acked, last, node>>
    /\ UNCHANGED initVars

\* the slice gets one more node
AddAddress(ip) ==
    /\ DNSStep
    /\ inv.op \in {"none", "addresses"}
    /\ LET ips == IF inv.op = "none" THEN <<>> ELSE inv.ips
       IN  /\ Len(ips) < MaxNodes
           /\ inv' = [op |-> "addresses", ips |-> Append(ips, ip)]
    /\ UNCHANGED <<remote, local>>

\* mflib.py:496-500: the else branch of stage 3
SetDNSStage(failAt, nd, nu) ==
    /\ DNSStep
    /\ inv.op = "addresses"
    /\ LET d == set_DNS_all_nodes(inv.ips, failAt)
           u == update_bootstrap("ipv6_4_nat", d.result, local, remote, nd, nu)
       IN  IF d.raised
           THEN /\ inv' = [op |-> "dns", ips |-> inv.ips, dns |-> d, failAt |-> failAt,
                           wrote |-> "none", pre |-> remote]
                /\ UNCHANGED <<remote, local>>
           ELSE /\ inv' = [op |-> "dns", ips |-> inv.ips, dns |-> d, failAt |-> failAt,
                           wrote |-> u.result, pre |-> remote]
                /\ remote' = u.remote
                /\ local' = u.local

\* init is over; the next run meets the checkpoint file the run has left
DNSReturn ==
    /\ DNSStep
    /\ inv.op = "dns"
    /\ inv' = NoInvocation
    /\ UNCHANGED <<remote, local>>

NextDNS ==
    \/ \E ip \in AddressKinds : AddAddress(ip)
    \/ \E failAt \in 0..MaxNodes, nd \in Net, nu \in Net : SetDNSStage(failAt, nd, nu)
    \/ DNSReturn

SpecDNS == Init /\ [][NextDNS]_vars

----------------------------------------------------------------------------
(* Stage 4 of MFLib.init, the clone of the repository, core.py:869-895 and *)
(* mflib.py:505-511.  The error output of the command is a sequence of     *)
(* lines: warnings of sudo and git, which do not stop the clone, and at    *)
(* the end at most one fatal message, since git stops at its first fatal   *)
(* error; the test for an existing destination is one of them.             *)

MaxLines == 3

ExistsLine == "fatal: destination path already exists and is not an empty directory."
FatalLines == {ExistsLine, "fatal: unable to access the repository"}
WarningLines == {"sudo: unable to resolve host", "warning: redirecting"}

IsFatal(line) == line \in FatalLines

\* core.py:888, the substring test on the whole of stderr
MentionsExistsNever(stderr) == FALSE
MentionsExists(stderr) == \E i \in 1..Len(stderr) : stderr[i] = ExistsLine

\* core.py:877-895; broke: meas_node.execute raises
clone_mf_repo(stderr, broke) ==
    IF broke THEN [raised |-> TRUE, ret |-> "none"]
    ELSE IF stderr # <<>> /\ ~MentionsExists(stderr) THEN [raised |-> FALSE, ret |-> "False"]
    ELSE [raised |-> FALSE, ret |-> "True"]

CloneStep ==
    /\ Idle
    /\ UNCHANGED <<acked, last, node>>
    /\ UNCHANGED initVars

\* the clone command writes one more line to stderr
CloneSays(line) ==
    /\ CloneStep
    /\ inv.op \in {"none", "cloning"}
    /\ LET stderr == IF inv.op = "none" THEN <<>> ELSE inv.stderr
       IN  /\ Len(stderr) < MaxLines
           /\ stderr # <<>> => ~IsFatal(stderr[Len(stderr)])
           /\ inv' = [op |-> "cloning", stderr |-> Append(stderr, line)]
    /\ UNCHANGED <<remote, local>>

\* mflib.py:509-511: the else branch of stage 4; the result of the clone is
\* not looked at
CloneStage(broke, nd, nu) ==
    /\ CloneStep
    /\ inv.op \in {"none", "cloning"}
    /\ LET stderr == IF inv.op = "none" THEN <<>> ELSE inv.stderr
           c == clone_mf_repo(stderr, broke)
           u == update_bootstrap("repo_cloned", "ok", local, remote, nd, nu)
       IN  /\ inv' = [op |-> "cloned", stderr |-> stderr, failed |-> broke, clone |-> c,
                      wrote |-> IF c.raised THEN "none" ELSE u.result]
           /\ remote' = IF c.raised THEN remote ELSE u.remote
           /\ local' = IF c.raised THEN local ELSE u.local

\* init is over; the next run meets the checkpoint file the run has left
CloneReturn ==
    /\ CloneStep
    /\ inv.op = "cloned"
    /\ inv' = NoInvocation
    /\ UNCHANGED <<remote, local>>

NextClone ==
    \/ \E line \in FatalLines \cup WarningLines : CloneSays(line)
    \/ \E broke \in BOOLEAN, nd \in Net, nu \in Net : CloneStage(broke, nd, nu)
    \/ CloneReturn

SpecClone == Init /\ [][NextClone]_vars

----------------------------------------------------------------------------
(* Properties of MFLib.init, checked under SpecInit *)

BssReady ==
    /\ bss.type = "dict"
    /\ "status" \in DOMAIN bss.dict
    /\ bss.dict["status"] = "ready"

\* C1: a run of init that reads status = "ready" executes no stage action and
\* makes no checkpoint write; it re-fetches the private key and returns.
C1_ReadyShortCut ==
    BssReady =>
        /\ pc = PcIdle
        /\ ran = {} /\ skipped = {} /\ wrote = {} /\ failed = {}
        /\ fetched

C1_Witness == BssReady /\ fetched /\ ret = "None" /\ last.op = "init"

\* C2: a stage that was executed and whose checkpoint write was acknowledged
\* is stored under the key, and with a value, that the stage's own completion
\* predicate accepts, so that no later run re-executes it.
C2_WriteMatchesPredicate ==
    \A s \in done :
        /\ remote.st = "json"
        /\ StageDone(s, Dict(remote.doc))

\* C3: a hard failure in stage 2 or in stage 4 ends the run: init returns
\* False, no later stage action runs, and neither the checkpoint of the
\* stage nor status = "ready" is written in that run.
C3_HardFailureAborts ==
    \A s \in failed :
        /\ pc = PcIdle
        /\ ret = "False"
        /\ \A t \in ran : t <= s
        /\ s \notin wrote
        /\ StatusStage \notin wrote

\* the stage was skipped, or its action ran and its _update_bootstrap returned
Passed(s) == s \in skipped \/ (s \in ran /\ s \in wrote)

\* C4: the action of stage k starts only after every earlier stage was
\* skipped or executed and written, and status = "ready" is written only in
\* a run in which each of the stages 1-8 was skipped or executed.
C4_StagesSequential ==
    /\ \A k \in ran : \A j \in 1..(k - 1) : Passed(j)
    /\ \A k \in skipped : \A j \in 1..(k - 1) : Passed(j)
    /\ \A k \in wrote \cap Stages : k \in ran
    /\ ran \cap skipped = {}
    /\ (pc.phase = "write" /\ pc.stage = StatusStage) => \A j \in Stages : Passed(j)
    /\ StatusStage \in wrote => \A j \in Stages : Passed(j)

C4_Witness ==
    /\ StatusStage \in wrote
    /\ skipped # {}
    /\ ran # {}
    /\ ret = "True"

\* C12: a transport error while init reads or writes the checkpoint does not
\* crash the controlling process: a run of init does not end with the
\* exception of a checkpoint access.
C12_CheckpointErrorReturns == ret # "TypeError"

\* C25: init returns False when no measurement node is found or a stage
\* fails and True in every other case, also when the checkpoint read has
\* status = "ready"; without a measurement node it returns before any
\* checkpoint access and any stage action.  (Runs that end by an exception
\* are left to C3 and C12.)
C25_ReturnValue ==
    (Idle /\ last = InitCall /\ ret \notin {"raised", "TypeError"})
        => /\ ret \in {"True", "False"}
           /\ ret = "False" <=> (bss = NoStatus \/ failed # {})
           /\ bss = NoStatus => (ran = {} /\ skipped = {} /\ wrote = {})

MarkedReady == remote.st = "json" /\ "status" \in DOMAIN remote.doc /\ remote.doc["status"] = "ready"

\* C36: whenever the remote checkpoint document has status = "ready", it
\* holds the key of every stage with a value its completion predicate
\* accepts, also when checkpoint uploads failed during the run.
C36_ReadyMeansAllStages ==
    MarkedReady
        => \A s \in Stages :
              /\ PredKey(s) \in DOMAIN remote.doc
              /\ remote.doc[PredKey(s)] \in Accepts(s)

Holds(d, k, v) == k \in DOMAIN d /\ d[k] = v

\* how a run of init can end: status = "ready" was written, by this run
\* or by an earlier one, or the run failed, by returning False or by an
\* exception
ReadyWritten ==
    \/ ret = "True" /\ local.st = "json" /\ Holds(local.doc, "status", "ready")
    \/ ret = "None" /\ Ready(bss)
FailureEnd == ret \in {"False", "raised", "TypeError"}

\* C40: when every remote command, upload and download returns, every
\* run of init ends, with status = "ready" written or with a failure.
C40_InitTerminates == ~Idle ~> (Idle /\ (ReadyWritten \/ FailureEnd))

\* a second run has resumed after the stages the first run had
\* checkpointed, and has ended with status = "ready"
C40_Witness ==
    /\ Idle
    /\ Runs = MaxRuns
    /\ skipped # {} /\ ran # {}
    /\ ret = "True"
    /\ ReadyWritten

----------------------------------------------------------------------------
(* Properties of the checkpoint store, checked under SpecStore *)

GetAfterUpdate == last.op = "get" /\ last.force /\ last.after.op = "update"

\* C5 (as stated): _update_bootstrap(k, v) followed by get_bootstrap_status()
\* returns a document that maps k to v and still holds every key set by the
\* earlier _update_bootstrap calls.
C5_RoundTripAlways ==
    (GetAfterUpdate /\ last.after.result # "raised") =>
        /\ last.status.type = "dict"
        /\ Holds(last.status.dict, last.after.key, last.after.value)
        /\ \A a \in DOMAIN acked : Holds(last.status.dict, a, acked[a])

\* C5 (amended): when _update_bootstrap(k, v) returned True and the download of
\* the following get_bootstrap_status() succeeds, the returned document maps
\* k to v and holds every key of the earlier calls that returned True.
C5_RoundTripAcked ==
    (GetAfterUpdate /\ last.after.result = "True" /\ last.nd = "ok") =>
        /\ last.status.type = "dict"
        /\ Holds(last.status.dict, last.after.key, last.after.value)
        /\ \A a \in DOMAIN acked : Holds(last.status.dict, a, acked[a])

C5_Witness ==
    /\ GetAfterUpdate /\ last.after.result = "True" /\ last.nd = "ok"
    /\ last.status.type = "dict"
    /\ Cardinality(DOMAIN last.status.dict) >= 2

\* C6: when the upload of _update_bootstrap(k, v) fails, the call returns
\* False, the local cache maps k to v and the remote document is unchanged.
C6_UploadFailure ==
    (last.op = "update" /\ last.uploading /\ last.nu = "fail") =>
        /\ last.result = "False"
        /\ local.st = "json"
        /\ Holds(local.doc, last.key, last.value)
        /\ remote = last.preRemote

C6_Witness ==
    /\ last.op = "update" /\ last.uploading /\ last.nu = "fail"
    /\ last.preRemote.st = "json"
    /\ last.key \notin DOMAIN last.preRemote.doc

\* C7: a forced get_bootstrap_status with no remote document returns the
\* empty status, whatever the local cache held.
C7_NotFoundIsEmpty ==
    (last.op = "get" /\ last.force /\ last.nd = "ok" /\ last.preRemote.st = "absent") =>
        last.status = Dict(EmptyDict)

C7_Witness ==
    /\ last.op = "get" /\ last.force /\ last.nd = "ok"
    /\ last.preRemote.st = "absent"
    /\ last.preLocal.st = "json"

\* C8: on a transport error of the download, get_bootstrap_status returns a
\* value different from the empty status.
C8_FailureNotEmpty ==
    (last.op = "get" /\ last.downloaded /\ last.nd = "fail") =>
        last.status # Dict(EmptyDict)

C8_Witness ==
    /\ last.op = "get" /\ last.downloaded /\ last.nd = "fail"
    /\ last.preRemote.st = "absent"

\* C9: get_bootstrap_status skips the download only with force disabled and
\* an existing local cache; a forced, successful download overwrites the
\* cache with the remote document, which is the status returned.
C9_CacheOnlyUnforced ==
    last.op = "get" =>
        /\ ~last.downloaded =>
              /\ ~last.force
              /\ last.preLocal.st # "absent"
              /\ local = last.preLocal
              /\ last.status = ReadStatusFile(last.preLocal)
        /\ (last.force /\ last.nd = "ok" /\ last.preRemote.st = "json") =>
              /\ last.downloaded
              /\ local = last.preRemote
              /\ last.status = Dict(last.preRemote.doc)

C9_Witness ==
    /\ last.op = "get" /\ ~last.force /\ ~last.downloaded
    /\ last.preLocal.st = "json"
    /\ last.preLocal # last.preRemote

\* C10: after _clear_bootstrap_status either both copies are deleted or
\* neither copy was touched.
C10_ClearAllOrNothing ==
    last.op = "clear" =>
        \/ local.st = "absent" /\ remote.st = "absent"
        \/ local = last.preLocal /\ remote = last.preRemote

\* C37: with a single controller, once _update_bootstrap(k, v) has
\* returned True the remote document maps k to v in every later state,
\* whatever get_bootstrap_status and _update_bootstrap calls on other keys
\* follow, failed uploads included, until _clear_bootstrap_status deletes
\* the document or k is written again.
C37_AckedWritesAreDurable ==
    \A k \in DOMAIN acked : remote.st = "json" /\ Holds(remote.doc, k, acked[k])

\* a write to another key came after an acknowledged one, and its upload
\* failed
C37_Witness ==
    /\ last.op = "update" /\ last.uploading /\ last.nu = "fail"
    /\ \E k \in DOMAIN acked : k # last.key
    /\ last.preLocal # last.preRemote

----------------------------------------------------------------------------
(* Properties of the reply parsing, checked under SpecReply *)

Replied == inv.op = "reply"

\* C13: for every stdout that contains a valid JSON object surrounded by
\* non-brace text, _run_service_command returns the object parsed from the
\* substring from the first '{' to the last '}', also when the object spans
\* several lines.
C13_ReplyIsParsedObject ==
    (Replied /\ ValidJson(JsonSlice(inv.stdout)))
        => (~inv.raised /\ inv.ret = JsonLoads(JsonSlice(inv.stdout)))

\* C14 as stated: when stdout holds no '{'...'}' substring or the substring
\* is not valid JSON, _run_service_command returns {} and does not raise.
C14_InvalidJsonIsEmpty ==
    (Replied /\ ~ValidJson(JsonSlice(inv.stdout)))
        => (~inv.raised /\ inv.ret = EmptyReply)

\* C14 amended: when stdout holds no '{'...'}' substring, or the substring
\* with every line feed replaced by the escape \n is not valid JSON,
\* _run_service_command returns {} and does not raise.
C14_ParseErrorIsEmpty ==
    (Replied /\ ~ValidJson(EscapeNewlines(JsonSlice(inv.stdout))))
        => (~inv.raised /\ inv.ret = EmptyReply)

\* a stdout with braces around text that is no JSON was answered with {}
C14_Witness ==
    /\ Replied
    /\ Len(JsonSlice(inv.stdout)) > 2
    /\ ~ValidJson(EscapeNewlines(JsonSlice(inv.stdout)))
    /\ inv.ret = EmptyReply

----------------------------------------------------------------------------
(* Properties of the service commands, checked under SpecDispatch *)

Dispatched == inv.op \in {"create", "update", "info"}
Staging == {"data", "mv data", "tmp file", "mv file"}
CallFailed(whats) ==
    \E i \in 1..Len(inv.calls) : inv.calls[i].what \in whats /\ ~inv.calls[i].ok

\* C11: in create, update and info a transport failure of the data upload,
\* of a file upload or of the execution of the command makes the invocation
\* return the empty reply {}; no exception reaches the caller.
C11_TransportFailureIsEmptyReply ==
    (Dispatched /\ CallFailed(Staging \cup {"command"}))
        => (inv.raised = "none" /\ inv.ret = RetReply(EmptyReply))

\* C15: in update, info, start, stop and remove nothing is staged and no
\* command is executed for a service that is not in the listing of the
\* services directory.
C15_UnlistedServiceUntouched ==
    inv.op \in {"update", "info", "start", "stop", "remove"}
        => \A i \in 1..Len(inv.calls) :
              inv.calls[i].what \in Staging \cup {"command"}
                  => inv.calls[i].service \in ServiceList

Validating ==
    inv.op \in {"info", "download_service_file", "upload_service_files",
                "upload_service_directory"}

C17_TraversalRejectedFirst ==
    (inv.op = "download_service_file" /\ HasDotDot(inv.args.filename))
        => (inv.raised = "none" /\ inv.ret = RetResult(FALSE) /\ inv.calls = <<>>)

\* C18: every remote path that download_service_file reads and every remote
\* path that upload_service_files writes lies inside the directory of the
\* service.
C18_PathContained ==
    inv.op \in {"download_service_file", "upload_service_files"}
        => \A i \in 1..Len(inv.calls) :
              inv.calls[i].what \in {"file", "mv file"}
                  => Inside(inv.calls[i].arg, ServiceDir(inv.args.service))

DirectoryUpload == inv.op = "upload_service_directory"

\* C19: when the target directory exists and force is False,
\* upload_service_directory leaves the node as it was, issues nothing but
\* the listing and the existence test, and returns a failure result once
\* these two have returned.
C19_OverwriteGuard ==
    (DirectoryUpload /\ inv.pre.dir # "absent" /\ ~inv.args.force)
        => /\ node = inv.pre /\ inv.left = {}
           /\ \A i \in 1..Len(inv.calls) : inv.calls[i].what \in {"ls", "test -d"}
           /\ (\A i \in 1..Len(inv.calls) : inv.calls[i].ok)
                 => (inv.raised = "none" /\ inv.ret = RetResult(FALSE))

\* the existence test found the directory and the upload was refused
C19_Witness ==
    /\ DirectoryUpload
    /\ inv.pre.dir # "absent" /\ ~inv.args.force
    /\ inv.args.service \in ServiceList /\ inv.args.hasParent
    /\ Len(inv.calls) = 2 /\ inv.calls[2].ok
    /\ inv.ret = RetResult(FALSE)

\* C20 as stated: with force on an existing directory, when
\* upload_service_directory (of an existing service, with a local directory
\* it accepts) returns, the directory holds the uploaded content.
C20_ReplacedOnReturn ==
    (DirectoryUpload /\ inv.pre.dir # "absent" /\ inv.args.force
       /\ inv.args.service \in ServiceList /\ inv.args.hasParent
       /\ inv.raised = "none")
        => node.dir = inv.args.content

\* C20 amended: with force on an existing directory, when
\* upload_service_directory returns a success result the directory holds
\* the uploaded content and nothing of the prior content.
C20_ReplacedOnSuccess ==
    (DirectoryUpload /\ inv.pre.dir # "absent" /\ inv.args.force
       /\ inv.ret = RetResult(TRUE))
        => node.dir = inv.args.content

\* C39: when a forced upload_service_directory on an existing directory
\* fails in the upload or in the move, it returns a failure result and the
\* prior directory is still there with its prior content.
C39_FailedForceKeepsPrior ==
    (DirectoryUpload /\ inv.pre.dir # "absent" /\ inv.args.force
       /\ CallFailed({"dir", "mv dir"}))
        => /\ inv.raised = "none"
           /\ inv.ret = RetResult(FALSE)
           /\ node.dir = inv.pre.dir

\* a forced upload replaced a directory of other content
C20_Witness ==
    /\ DirectoryUpload
    /\ inv.pre.dir \notin {"absent", inv.args.content}
    /\ inv.args.force
    /\ inv.ret = RetResult(TRUE)
    /\ node.dir = inv.args.content

CommandCalls == SelectSeq(inv.calls, LAMBDA c : c.what = "command")

\* C24: start, stop and remove run their command once per listed service,
\* in list order, and return a list with one entry {service, results} per
\* listed service in the same order.
C24_OneEntryPerService ==
    (inv.op \in {"start", "stop", "remove"} /\ inv.raised = "none")
        => /\ Len(CommandCalls) = Len(inv.args.services)
           /\ \A i \in 1..Len(CommandCalls) :
                 /\ CommandCalls[i].service = inv.args.services[i]
                 /\ CommandCalls[i].arg.command = inv.op
           /\ inv.ret.kind = "list"
           /\ Len(inv.ret.entries) = Len(inv.args.services)
           /\ \A i \in 1..Len(inv.args.services) :
                 inv.ret.entries[i].service = inv.args.services[i]

\* the payload the invocation is to place in the data slot
Expected ==
    IF Dispatched /\ inv.args.data \notin {"none", "{}"} THEN inv.args.data
    ELSE "{}"

RunsCommands == Dispatched \/ inv.op \in {"start", "stop", "remove"}

C22_StagingDiscarded ==
    (Dispatched /\ inv.args.service \in ServiceList)
        => inv.left \cap {"local data", "data"} = {}

FileCalls == SelectSeq(inv.calls, LAMBDA c : c.what \in {"tmp file", "mv file"})
MoveCalls == SelectSeq(inv.calls, LAMBDA c : c.what = "mv file")

\* C23: upload_service_files handles the files in list order; when the
\* upload of a file fails, the files before it are in place, the files
\* after it are not attempted, and the call returns a failure result, it
\* does not raise.
C23_BestEffortInOrder ==
    (inv.op = "upload_service_files" /\ inv.args.service \in ServiceList
       /\ inv.calls[1].ok)
        => /\ \A n \in 1..Len(MoveCalls) :
                 MoveCalls[n].arg = UploadPath(inv.args.service, inv.args.files[n])
           /\ CallFailed({"tmp file", "mv file"})
                 => /\ \A n \in 1..(Len(FileCalls) - 1) : FileCalls[n].ok
                    /\ inv.raised = "none"
                    /\ inv.ret = RetResult(FALSE)

----------------------------------------------------------------------------
(* Properties of the hosts inventory, checked under SpecHosts *)

Written == inv.op = "hosts_ini"

HeaderAt == {i \in 1..Len(inv.text) : inv.text[i] = MeasHeader}

\* C26: the inventory has the [Meas_Node] header exactly once, with exactly
\* one host line under it, that of the measurement node, whatever the names
\* of the other nodes.
C26_OneMeasNodeEntry ==
    Written
        => /\ Cardinality(HeaderAt) = 1
           /\ \A i \in HeaderAt :
                 /\ inv.text[i + 1].kind = "host"
                 /\ inv.text[i + 1].name = MeasNodeName
                 /\ inv.text[i + 2].kind # "host"

\* the lines between [Experiment_Nodes] and the tail
ExperimentGroup ==
    LET h == CHOOSE i \in 1..Len(inv.text) : inv.text[i] = ExperimentHeader
    IN  SubSeq(inv.text, h + 1, Len(inv.text) - Len(HostsTail))

\* C27: every node other than the measurement node has exactly one line in
\* the experiment-node group, and the lines are in the order in which the
\* nodes are met (network by network, interface by interface).
C27_ExperimentGroupInOrder ==
    Written
        => ExperimentGroup = SelectSeq(inv.hosts, LAMBDA h : h.name # MeasNodeName)

\* the measurement networks of the slice and what was configured on each
MeasNetworks == {n \in {inv.networks[i] : i \in 1..Len(inv.networks)} : IsMeasNetwork(n)}
ConfiguredOn(n) == SelectSeq(inv.configured, LAMBDA c : c.network = n.name)

\* C34: in each measurement subnet the k-th interface in discovery order
\* gets the k-th address of the pool of the subnet: no two interfaces of a
\* subnet share an address, each interface of a measurement network gets
\* exactly one address, and no other interface gets one.
C34_PoolOrderAssignment ==
    Written
        => /\ \A n \in MeasNetworks :
                 /\ Len(ConfiguredOn(n)) = Len(n.interfaces)
                 /\ \A k \in 1..Len(n.interfaces) :
                       /\ ConfiguredOn(n)[k].name = n.interfaces[k]
                       /\ ConfiguredOn(n)[k].ip = get_available_ips(n)[k]
                 /\ \A j \in 1..Len(n.interfaces), k \in 1..Len(n.interfaces) :
                       j # k => ConfiguredOn(n)[j].ip # ConfiguredOn(n)[k].ip
           /\ \A i \in 1..Len(inv.configured) :
                 \E n \in MeasNetworks : inv.configured[i].network = n.name

\* a measurement network with two interfaces, beside a network of the
\* experimenter
C34_Witness ==
    /\ Written
    /\ \E n \in MeasNetworks : Len(n.interfaces) > 1
    /\ \E i \in 1..Len(inv.networks) : ~IsMeasNetwork(inv.networks[i])

OwnNetwork == CHOOSE n \in MeasNetworks : n.name = NetName(inv.nodes[Len(inv.nodes)].site)
LocalNetwork(site) == CHOOSE n \in MeasNetworks : n.name = NetName(site)
EntriesOf(name) == SelectSeq(inv.configured, LAMBDA c : c.name = name)
RouteSet(c) == {c.routes[i] : i \in 1..Len(c.routes)}

\* C35: the control node has one route for every measurement subnet other
\* than its own, via the gateway of its own subnet; every experiment node
\* has exactly one added route, to the subnet of the control node via the
\* gateway of the measurement subnet of its own site.
C35_MeasurementRoutes ==
    Written
        => /\ Len(EntriesOf(MeasNodeName)) = 1
           /\ LET c == EntriesOf(MeasNodeName)[1]
              IN  /\ RouteSet(c) = {Route(Subnet(n), Gateway(OwnNetwork)) :
                                       n \in MeasNetworks \ {OwnNetwork}}
                  /\ Len(c.routes) = Cardinality(MeasNetworks \ {OwnNetwork})
           /\ \A i \in 1..(Len(inv.nodes) - 1) :
                 /\ Len(EntriesOf(inv.nodes[i].name)) = 1
                 /\ EntriesOf(inv.nodes[i].name)[1].routes =
                       <<Route(Subnet(OwnNetwork), Gateway(LocalNetwork(inv.nodes[i].site)))>>

\* an experiment node at the site of the control node and one at another
\* site
C35_Witness ==
    /\ Written
    /\ Cardinality(MeasNetworks) > 1
    /\ \E i \in 1..(Len(inv.nodes) - 1) : inv.nodes[i].site = inv.nodes[Len(inv.nodes)].site
    /\ \E i \in 1..(Len(inv.nodes) - 1) : inv.nodes[i].site # inv.nodes[Len(inv.nodes)].site

\* C38: a topology prepared with addMeasNode is accepted by init, which
\* finds its measurement node as the control node, and the control node of
\* init is the node whose line _make_hosts_ini_file puts under
\* [Meas_Node].
C38_ControlNodeIdentity ==
    /\ inv.op = "init"
          => /\ inv.ret # "False"
             /\ inv.control.name = MeasNodeName
    /\ Written
          => \A i \in HeaderAt : inv.text[i + 1].name = inv.control.name

----------------------------------------------------------------------------
(* Properties of two controllers, checked under SpecTwo *)

\* position of a remote operation in the order of the round, 0 when absent
At(c, step) ==
    LET hits == {i \in 1..Len(inv.order) : inv.order[i] = Took(c, step)}
    IN  IF hits = {} THEN 0 ELSE CHOOSE i \in hits : TRUE

Acked(c) == inv.ctl[c].at = "returned" /\ inv.ctl[c].result = "True"

\* o uploaded after c a document that it had downloaded before c's upload
Overtakes(o, c) ==
    /\ At(o, "upload") > At(c, "upload")
    /\ At(o, "download") < At(c, "upload")

\* o uploaded after c and wrote the same key
Rewrites(o, c) ==
    /\ At(o, "upload") > At(c, "upload")
    /\ inv.ctl[o].key = inv.ctl[c].key

Survives(c) ==
    /\ inv.ctl[c].key \in DOMAIN remote.doc
    /\ remote.doc[inv.ctl[c].key] = inv.ctl[c].value

\* C28: two _update_bootstrap calls on different keys lose an update only
\* when their read-modify-write cycles interleave: once the calls of a
\* round have returned, the key of a call that returned True is in the
\* remote document with its value, unless another call that returned True
\* uploaded later a document it had downloaded before this call's upload.
C28_LostOnlyWhenInterleaved ==
    Settled
        => \A c \in Controllers :
              (/\ Acked(c)
               /\ \A o \in Controllers \ {c} :
                     Acked(o) => (~Overtakes(o, c) /\ ~Rewrites(o, c)))
                  => Survives(c)

\* both calls returned True on different keys and the remote document
\* lacks the key of one of them
C28_Witness ==
    /\ Settled
    /\ \A c \in Controllers : Acked(c)
    /\ \E c \in Controllers, o \in Controllers :
          /\ inv.ctl[c].key # inv.ctl[o].key
          /\ inv.ctl[c].key \notin DOMAIN remote.doc
          /\ inv.ctl[o].key \in DOMAIN remote.doc

----------------------------------------------------------------------------
(* Properties of the account stage, checked under SpecAccounts *)

\* the launch loop of the current step is over
LoopOver ==
    /\ inv.op = "accounts"
    /\ \/ inv.phase \in {"join", "raised"}
       \/ inv.phase = "launch" /\ inv.at \notin TopologyNodes

\* init is still inside the stage or has left it by its end
Proceeding == inv.op = "accounts" /\ inv.phase # "raised"

\* C29: in every step one remote task per node is launched, and no task
\* launched in a step is running once init has proceeded past that step:
\* while init proceeds, every running task belongs to the current step,
\* and none is running at the end of the stage; a launch loop that is
\* over has gone through every node, once.
C29_ScatterGatherBarrier ==
    /\ Proceeding
          => /\ \A t \in inv.running : t.step = inv.step
             /\ inv.phase \in {"copy", "done"} => inv.running = {}
    /\ (LoopOver /\ ~Blocking(inv.step))
          => /\ inv.issued \cup inv.refused = TopologyNodes
             /\ inv.issued \cap inv.refused = {}
             /\ Len(inv.threads) = Cardinality(inv.issued)
             /\ \A n \in inv.issued :
                   \E i \in 1..Len(inv.threads) : inv.threads[i] = Task(inv.step, n)

\* the stage has ended with every launch of every step made, so that a
\* task per node was launched and collected in each step
C29_Witness ==
    /\ Proceeding
    /\ inv.phase = "done"
    /\ inv.success
    /\ inv.running = {}

\* C30: a failure on one node does not abort the sibling nodes: once the
\* launch loop of a step is over, also when init has left through the
\* exception of a task, the command of the step has been issued on every
\* node whose own launch did not fail.
C30_SiblingsStillIssued ==
    LoopOver => \A n \in TopologyNodes : n \in inv.refused \/ n \in inv.issued

\* the launch failed on one node, or the task of one node raised, and the
\* command of the step was issued on another node after it
C30_Witness ==
    /\ LoopOver
    /\ \E n \in TopologyNodes, m \in TopologyNodes :
          /\ n < m
          /\ n \in inv.refused \/ Task(inv.step, n) \in inv.raised
          /\ m \in inv.issued

\* the stage is over: init goes on to stage 3, has returned False, or was
\* left through an exception
StageOver == inv.op = "accounts" /\ inv.phase \in {"done", "raised"}
Aborted == inv.phase = "raised" \/ ~inv.success

\* C31: only a failure of the account-creation command on the control node
\* blocks the subsequent stages: when the stage is over, init has aborted
\* if useradd failed on the control node, and has not aborted if all the
\* failures of the stage were on experiment nodes.
C31_OnlyControlNodeBlocks ==
    StageOver
        => /\ ControlNode \in inv.addFailed => Aborted
           /\ ControlNode \notin inv.hurt => ~Aborted

----------------------------------------------------------------------------
(* Properties of stage 3, checked under SpecDNS *)

IPv6Nodes == {i \in 1..Len(inv.ips) : inv.ips[i] = "IPv6"}

\* C32: set_DNS_all_nodes reconfigures DNS on exactly the nodes whose
\* management address is IPv6, returns "set" when there is such a node and
\* "not needed" when there is none, and that value is what the stage
\* writes to the key ipv6_4_nat.  When a DNS command raises, nothing is
\* returned and nothing is written.
C32_DNSOutcome ==
    inv.op = "dns"
        => IF inv.dns.raised
           THEN /\ inv.dns.configured \subseteq IPv6Nodes
                /\ inv.wrote = "none"
                /\ remote = inv.pre
           ELSE /\ inv.dns.configured = IPv6Nodes
                /\ inv.dns.result = (IF IPv6Nodes # {} THEN "set" ELSE "not needed")
                /\ inv.wrote = "True"
                      => /\ "ipv6_4_nat" \in DOMAIN remote.doc
                         /\ remote.doc["ipv6_4_nat"] = inv.dns.result
                /\ inv.wrote # "True" => remote = inv.pre

\* a slice with an IPv6 node, an IPv4 node or one without a valid address,
\* and the result of the stage written
C32_Witness ==
    /\ inv.op = "dns"
    /\ ~inv.dns.raised
    /\ IPv6Nodes # {}
    /\ IPv6Nodes # 1..Len(inv.ips)
    /\ inv.wrote = "True"
    /\ remote.doc["ipv6_4_nat"] = "set"

----------------------------------------------------------------------------
(* Properties of the clone, checked under SpecClone *)

Cloned == inv.op = "cloned" /\ ~inv.failed

\* the fatal message of the command, when it has one
FatalOf(stderr) == {stderr[i] : i \in 1..Len(stderr)} \cap FatalLines

\* C33: a clone that fails only because the destination exists and is not
\* empty counts as success, and every other error output gives False:
\* _clone_mf_repo returns True when the fatal message is the one of the
\* existing destination, False for any other non-empty error output, and
\* True when there is no error output.
C33_ExistingCloneIsSuccess ==
    Cloned
        => /\ FatalOf(inv.stderr) = {ExistsLine} => inv.clone.ret = "True"
           /\ (inv.stderr # <<>> /\ FatalOf(inv.stderr) # {ExistsLine})
                 => inv.clone.ret = "False"
           /\ inv.stderr = <<>> => inv.clone.ret = "True"

\* a warning of sudo followed by the message of the existing destination
C33_Witness ==
    /\ Cloned
    /\ Len(inv.stderr) > 1
    /\ FatalOf(inv.stderr) = {ExistsLine}
    /\ inv.clone.ret = "True"

====
